---- MODULE Spec2Model ----
(***************************************************************************)
(* Model of scripts/bump_version.py, the pre-commit helper that bumps the  *)
(* patch component of project.version in pyproject.toml when src/ changes  *)
(* are staged.                                                             *)
(*                                                                         *)
(* Text (the manifest, git's output, versions, paths) is modelled as       *)
(* sequences of one-character strings, so that str.split, str.join, int,   *)
(* str, the tomllib lookup and the VERSION_LINE substitution are computed  *)
(* on characters, as the code computes them.                               *)
(***************************************************************************)
EXTENDS Integers, Sequences, FiniteSets, TLC

VARIABLES
    disk,             \* text of pyproject.toml in the working tree
    index,            \* pyproject.toml in the git index: [some, val]
    head,             \* pyproject.toml in HEAD: [some, val]; some = FALSE: git show fails
    others,           \* the other staged paths, as git prints them
    pc,               \* position of the running invocation of bump_version
    staged_files,     \* local of bump_version (line 70)
    head_version,     \* local of bump_version (line 82): [some, val]
    current_version,  \* local of bump_version (line 83)
    new_version,      \* local of bump_version (line 94)
    updated,          \* local of bump_version (line 96)
    err,              \* the exception that ended the invocation, "" when none
    out,              \* the status lines printed by the invocation
    events,           \* the effects of the invocation, in order
    pre,              \* disk, index and HEAD as they were when the invocation began
    prev,             \* the previous invocation, while nothing happened since
    runs,             \* number of invocations begun
    incIn,            \* argument of _increment_patch (specification SpecInc)
    incOut            \* its result (specification SpecInc)

gitVars == <<disk, index, head, others>>
locals == <<staged_files, head_version, current_version, new_version, updated>>
ghost == <<events, pre, prev, runs>>
incVars == <<incIn, incOut>>
vars == <<disk, index, head, others, pc, staged_files, head_version,
          current_version, new_version, updated, err, out, events, pre, prev,
          runs, incIn, incOut>>

(***************************************************************************)
(* Bounds of the model.                                                    *)
(***************************************************************************)
\* invocations of bump_version in one behaviour
MaxRuns == 2
\* length of the version strings _increment_patch is applied to in SpecInc
MaxVerLen == 5

(***************************************************************************)
(* Characters and strings.                                                 *)
(***************************************************************************)
NL == "\n"
QUOTE == "\""
DigitChars == <<"0", "1", "2", "3", "4", "5", "6", "7", "8", "9">>
Digits == {DigitChars[i] : i \in 1..10}

\* Python's optional values: None is [some |-> FALSE].
None == [some |-> FALSE, val |-> <<>>]
Some(v) == [some |-> TRUE, val |-> v]

\* A call that returns a value or raises.
Ok(v) == [ok |-> TRUE, val |-> v, exc |-> ""]
Raise(e) == [ok |-> FALSE, val |-> <<>>, exc |-> e]

\* the characters \s matches and str.strip removes
IsSpace(c) == c \in {" ", "\t", "\n", "\r"}

\* s[i..j], empty when j < i
Slice(s, i, j) == IF j < i THEN <<>> ELSE SubSeq(s, i, j)

\* b in a
Contains(s, c) == \E i \in 1..Len(s) : s[i] = c

\* str.startswith
StartsWith(s, p) == Len(s) >= Len(p) /\ SubSeq(s, 1, Len(p)) = p

\* s has w at position i
HasAt(s, i, w) == i + Len(w) - 1 <= Len(s) /\ SubSeq(s, i, i + Len(w) - 1) = w

\* position of the first c in s at or after i; Len(s) + 1 when there is none
IndexFrom(s, c, i) ==
    CHOOSE k \in i..(Len(s) + 1) :
        /\ k = Len(s) + 1 \/ s[k] = c
        /\ \A j \in i..(k - 1) : s[j] # c

\* the smallest and the largest member of a set of positions
Min(S) == CHOOSE x \in S : \A y \in S : x <= y
Max(S) == CHOOSE x \in S : \A y \in S : y <= x

\* str.split(sep) for a one-character separator: "" gives [""]
RECURSIVE Split(_, _)
SplitAt(s, sep, i) ==
    IF i > Len(s) THEN <<s>>
    ELSE <<Slice(s, 1, i - 1)>> \o Split(Slice(s, i + 1, Len(s)), sep)
Split(s, sep) == SplitAt(s, sep, IndexFrom(s, sep, 1))

\* sep.join(parts)
RECURSIVE Join(_, _)
Join(parts, sep) ==
    IF Len(parts) = 0 THEN <<>>
    ELSE IF Len(parts) = 1 THEN parts[1]
    ELSE parts[1] \o <<sep>> \o Join(Tail(parts), sep)

\* str.strip()
RECURSIVE Strip(_)
Strip(s) ==
    IF Len(s) = 0 THEN s
    ELSE IF IsSpace(s[1]) THEN Strip(Tail(s))
    ELSE IF IsSpace(s[Len(s)]) THEN Strip(Slice(s, 1, Len(s) - 1))
    ELSE s

\* str.replace(a, b) for one-character a and b
Replace(s, a, b) == [i \in 1..Len(s) |-> IF s[i] = a THEN b ELSE s[i]]

\* str.splitlines(): the lines of s, no empty last line after a final newline
SplitLines(s) ==
    IF Len(s) = 0 THEN <<>>
    ELSE IF s[Len(s)] = NL THEN Split(Slice(s, 1, Len(s) - 1), NL)
    ELSE Split(s, NL)

\* the value of a decimal digit
DigitVal(c) == (CHOOSE i \in 1..10 : DigitChars[i] = c) - 1

\* int(s) accepts s: over the characters of the model, a non-empty digit string
IsInt(s) == Len(s) > 0 /\ \A i \in 1..Len(s) : s[i] \in Digits

\* int(s) for a digit string
RECURSIVE IntOf(_)
IntOf(s) ==
    IF Len(s) = 0 THEN 0
    ELSE 10 * IntOf(Slice(s, 1, Len(s) - 1)) + DigitVal(s[Len(s)])

\* str(n) for n >= 0
RECURSIVE StrOf(_)
StrOf(n) ==
    IF n < 10 THEN <<DigitChars[n + 1]>>
    ELSE StrOf(n \div 10) \o <<DigitChars[(n % 10) + 1]>>

(***************************************************************************)
(* _increment_patch (lines 61-66).                                         *)
(***************************************************************************)
\* lines 65-66 on the split version
IncrementLast(parts) ==
    IF ~IsInt(parts[Len(parts)]) THEN Raise("ValueError")
    ELSE Ok(Join([parts EXCEPT ![Len(parts)] = StrOf(IntOf(parts[Len(parts)]) + 1)], "."))

\* lines 63-66 on the split version
CheckAndIncrement(parts) ==
    IF Len(parts) # 3 THEN Raise("ValueError") ELSE IncrementLast(parts)

\* a plausible slip: the component count is not checked
Mut_increment_patch_nocheck(version) == IncrementLast(Split(version, "."))

_increment_patch(version) == CheckAndIncrement(Split(version, "."))

(***************************************************************************)
(* tomllib.load(...)["project"]["version"] (lines 19-22 and 35-36), for    *)
(* the TOML the texts of the model are written in: table headers, keys     *)
(* with string values, comments and blank lines; a table or a key given    *)
(* twice is an error.                                                      *)
(***************************************************************************)
KVersion == <<"v", "e", "r", "s", "i", "o", "n">>
TProject == <<"p", "r", "o", "j", "e", "c", "t">>

Blank == [kind |-> "blank", name |-> <<>>, val |-> <<>>]
Bad == [kind |-> "bad", name |-> <<>>, val |-> <<>>]

\* what may follow a value or a header on its line: nothing, or a comment
RestIs(r) == Len(r) = 0 \/ r[1] = "#"
RestOk(s) == RestIs(Strip(s))

\* [name] with the bracket closing at k
ParseHeader(s, k) ==
    IF k <= Len(s) /\ RestOk(Slice(s, k + 1, Len(s)))
    THEN [kind |-> "table", name |-> Strip(Slice(s, 2, k - 1)), val |-> <<>>]
    ELSE Bad

\* key = "value" or key = 'value', the string closing at close
ParseString(key, rest, close) ==
    IF close <= Len(rest) /\ RestOk(Slice(rest, close + 1, Len(rest)))
    THEN [kind |-> "kv", name |-> key, val |-> Slice(rest, 2, close - 1)]
    ELSE Bad

ParseValue(key, rest) ==
    IF Len(key) = 0 \/ Len(rest) = 0 THEN Bad
    ELSE IF rest[1] \in {QUOTE, "'"} THEN ParseString(key, rest, IndexFrom(rest, rest[1], 2))
    ELSE Bad

\* key = value, the = at eq
ParseKeyValue(s, eq) ==
    IF eq > Len(s) THEN Bad
    ELSE ParseValue(Strip(Slice(s, 1, eq - 1)), Strip(Slice(s, eq + 1, Len(s))))

\* a line without the white space around it
ParseStripped(s) ==
    IF Len(s) = 0 \/ s[1] = "#" THEN Blank
    ELSE IF s[1] = "[" THEN ParseHeader(s, IndexFrom(s, "]", 2))
    ELSE ParseKeyValue(s, IndexFrom(s, "=", 1))

\* one line of TOML: blank (or comment), table header, key = "string", bad
ParseLine(line) == ParseStripped(Strip(line))

RECURSIVE ParseLines(_)
ParseLines(lines) ==
    IF Len(lines) = 0 THEN <<>>
    ELSE <<ParseLine(Head(lines))>> \o ParseLines(Tail(lines))

\* the table the i-th line belongs to: the last header before it, <<>> at the root
TableOf(P, hs) == IF hs = {} THEN <<>> ELSE P[Max(hs)].name
TableAt(P, i) == TableOf(P, {j \in 1..(i - 1) : P[j].kind = "table"})

\* a table or a key of one table given twice
Twice(P) ==
    \E i, j \in 1..Len(P) :
        /\ i < j
        /\ P[i].kind = P[j].kind
        /\ P[i].name = P[j].name
        /\ \/ P[i].kind = "table"
           \/ P[i].kind = "kv" /\ TableAt(P, i) = TableAt(P, j)

\* the lines that set version in the table project
VersionLines(P) ==
    {i \in 1..Len(P) : /\ P[i].kind = "kv"
                       /\ P[i].name = KVersion
                       /\ TableAt(P, i) = TProject}

\* data["project"]["version"]
Lookup(P, hits) == IF hits = {} THEN Raise("KeyError") ELSE Ok(P[Min(hits)].val)

\* tomllib.load on the parsed lines, then the lookup
LoadLookup(P) ==
    IF Twice(P) \/ \E i \in 1..Len(P) : P[i].kind = "bad"
    THEN Raise("TOMLDecodeError")
    ELSE Lookup(P, VersionLines(P))

\* tomllib.load(text)["project"]["version"]
TomlVersion(text) == LoadLookup(ParseLines(Split(text, NL)))

\* _read_version_from_path (lines 19-22)
_read_version_from_path(text) == TomlVersion(text)

\* the version or the exception of lines 35-36
Loaded(r) == IF r.ok THEN Ok(Some(r.val)) ELSE Raise(r.exc)

\* a plausible slip: a git failure is not caught
Mut_read_version_from_git_raises(file) ==
    IF ~file.some THEN Raise("CalledProcessError") ELSE Loaded(TomlVersion(file.val))

\* _read_version_from_git (lines 25-36): git show fails when HEAD has no
\* pyproject.toml, and the result is then None
_read_version_from_git(file) ==
    IF ~file.some THEN Ok(None) ELSE Loaded(TomlVersion(file.val))

(***************************************************************************)
(* VERSION_LINE (line 16) and its use in _update_version_line (107-112):   *)
(*   ^(\s*version\s*=\s*")(.*?)(")\s*$   with re.MULTILINE, count=1        *)
(***************************************************************************)
\* where a greedy \s* starting at i stops: the first non-space at or after i
SkipWs(s, i) ==
    CHOOSE j \in i..(Len(s) + 1) :
        /\ j = Len(s) + 1 \/ ~IsSpace(s[j])
        /\ \A k \in i..(j - 1) : IsSpace(s[k])

\* ^ under re.MULTILINE, before position p
AtLineStart(s, p) == p = 1 \/ s[p - 1] = NL

\* $ under re.MULTILINE, before position e
AtLineEnd(s, e) == e = Len(s) + 1 \/ s[e] = NL

NoMatch == [found |-> FALSE, open |-> 0, close |-> 0, end |-> 0]

\* \s*$ after the quote at q: the ends it can reach, by backtracking from
\* the greedy one
TailEnds(s, q) == {e \in (q + 1)..SkipWs(s, q + 1) : AtLineEnd(s, e)}

\* (.*?)(")\s*$ after the opening quote at c: the closing quotes on the same
\* line the rest of the pattern can match after
ClosingQuotes(s, c) ==
    {q \in (c + 1)..Len(s) : /\ s[q] = QUOTE
                             /\ \A k \in (c + 1)..(q - 1) : s[k] # NL
                             /\ TailEnds(s, q) # {}}

\* the lazy group 2 takes the first closing quote, the greedy \s* the last end
MatchClose(s, c, qs) ==
    IF qs = {} THEN NoMatch
    ELSE [found |-> TRUE, open |-> c, close |-> Min(qs),
          end |-> Max(TailEnds(s, Min(qs)))]

\* \s*" with the \s* stopping at c
MatchOpen(s, c) ==
    IF c > Len(s) \/ s[c] # QUOTE THEN NoMatch
    ELSE MatchClose(s, c, ClosingQuotes(s, c))

\* \s*= with the \s* stopping at b
MatchEq(s, b) ==
    IF b > Len(s) \/ s[b] # "=" THEN NoMatch ELSE MatchOpen(s, SkipWs(s, b + 1))

\* \s*version with the \s* stopping at a
MatchKey(s, a) ==
    IF ~HasAt(s, a, KVersion) THEN NoMatch
    ELSE MatchEq(s, SkipWs(s, a + Len(KVersion)))

\* the match of VERSION_LINE that starts at p: group 1 is s[p..open], group 2
\* s[open+1..close-1], group 3 the quote at close, and the match ends before
\* position end
MatchAt(s, p) == IF ~AtLineStart(s, p) THEN NoMatch ELSE MatchKey(s, SkipWs(s, p))

\* VERSION_LINE.search(s): the leftmost match
Leftmost(s, ps) == IF ps = {} THEN NoMatch ELSE MatchAt(s, Min(ps))
Search(s) == Leftmost(s, {p \in 1..(Len(s) + 1) : MatchAt(s, p).found})

\* the match m replaced by group 1, new and group 3
Substitute(s, new, m) ==
    IF ~m.found THEN s
    ELSE Slice(s, 1, m.open) \o new \o <<s[m.close]>> \o Slice(s, m.end, Len(s))

\* VERSION_LINE.sub(lambda m: m.group(1) + new_version + m.group(3), s, count=1)
VersionLineSub(s, new) == Substitute(s, new, Search(s))

\* lines 110-112
CheckReplaced(original, replaced) ==
    IF replaced = original THEN Raise("RuntimeError") ELSE Ok(replaced)

\* a plausible slip: no check that the substitution changed the text
Mut_update_version_line_nocheck(original, new) == Ok(VersionLineSub(original, new))

\* _update_version_line (lines 107-112), original being the text on disk
_update_version_line(original, new) ==
    CheckReplaced(original, VersionLineSub(original, new))

(***************************************************************************)
(* The texts the model starts from.                                        *)
(***************************************************************************)
V010 == <<"0", ".", "1", ".", "0">>
V011 == <<"0", ".", "1", ".", "1">>
V019 == <<"0", ".", "1", ".", "9">>
V700 == <<"7", ".", "0", ".", "0">>
\* two components: not major.minor.patch
V12 == <<"1", ".", "2">>
\* version = "": a string Python takes for false
VEmpty == <<>>

\* the versions of the working tree's manifest, and those of HEAD's
DiskVersions == {V010, V011, V019, V12}
HeadVersions == {V010, V011, VEmpty}

LineProject == <<"[">> \o TProject \o <<"]", NL>>
LineTool == <<"[", "t", "o", "o", "l", "]", NL>>
LineName == <<"n", "a", "m", "e", " ", "=", " ", QUOTE, "a", QUOTE, NL>>
LineBlank == <<NL>>
VersionKey(v) == KVersion \o <<" ", "=", " ", QUOTE>> \o v \o <<QUOTE>>
LineVersion(v) == VersionKey(v) \o <<NL>>
LineVersionComment(v) == VersionKey(v) \o <<" ", "#", " ", "c", NL>>

Layouts == {"plain", "last", "blank", "toolfirst", "toolsame", "comment", "noversion"}

\* a pyproject.toml with project.version = v
Manifest(layout, v) ==
    CASE layout = "plain" -> LineProject \o LineVersion(v) \o LineName
      [] layout = "last" -> LineProject \o LineName \o LineVersion(v)
      [] layout = "blank" ->
             LineProject \o LineVersion(v) \o LineBlank \o LineTool \o LineVersion(V700)
      [] layout = "toolfirst" ->
             LineTool \o LineVersion(V700) \o LineProject \o LineVersion(v) \o LineName
      [] layout = "toolsame" ->
             LineTool \o LineVersion(V011) \o LineProject \o LineVersion(v) \o LineName
      [] layout = "comment" -> LineProject \o LineVersionComment(v) \o LineName
      [] layout = "noversion" -> LineProject \o LineName

(***************************************************************************)
(* git: the staged names and the index.                                    *)
(***************************************************************************)
PYPROJECT == <<"p", "y", "p", "r", "o", "j", "e", "c", "t", ".", "t", "o", "m", "l">>
SrcPrefix == <<"s", "r", "c", "/">>
PathDoc == <<"d", "o", "c", "s", "/", "a">>
PathSrc == <<"s", "r", "c", "/", "m">>
PathSrcs == <<"s", "r", "c", "s", "/", "a">>
OtherPaths == {PathDoc, PathSrc, PathSrcs}

\* the staged paths in the order git prints them
PathOrder == <<PathDoc, PYPROJECT, PathSrc, PathSrcs>>

\* the names, each on its line
RECURSIVE NameLines(_)
NameLines(names) ==
    IF Len(names) = 0 THEN <<>>
    ELSE Head(names) \o <<NL>> \o NameLines(Tail(names))

\* stdout of git diff --cached --name-only: pyproject.toml is staged when the
\* index differs from HEAD
GitDiffCached ==
    NameLines(SelectSeq(PathOrder,
                  LAMBDA q : q \in others \/ (q = PYPROJECT /\ index # head)))

\* lines 50-53: each line stripped and its backslashes replaced, the empty
\* ones dropped
RECURSIVE Normalized(_)
Normalized(lines) ==
    IF Len(lines) = 0 THEN <<>>
    ELSE SelectSeq(<<Replace(Strip(Head(lines)), "\\", "/")>>, LAMBDA x : Len(x) > 0)
         \o Normalized(Tail(lines))

\* _list_staged_files (lines 39-54): ok is whether git diff succeeded
_list_staged_files(ok, stdout) ==
    IF ~ok THEN <<>> ELSE Normalized(SplitLines(stdout))

\* a plausible slip: the prefix is compared without its last character
Mut_has_prefix_short(paths, prefix) ==
    \E i \in 1..Len(paths) : StartsWith(paths[i], Slice(prefix, 1, Len(prefix) - 1))

\* _has_prefix (lines 57-58)
_has_prefix(paths, prefix) == \E i \in 1..Len(paths) : StartsWith(paths[i], prefix)

\* "pyproject.toml" in staged_files (line 76)
pyproject_staged == Contains(staged_files, PYPROJECT)

\* line 75
has_src_changes == _has_prefix(staged_files, SrcPrefix)

\* a Python string or None taken as a condition
Truthy(o) == o.some /\ Len(o.val) > 0

\* a plausible slip: the guard against a second bump is lost
Mut_AlreadyBumped_never(hv, cv) == FALSE

\* a plausible slip: the comparison is inverted
Mut_AlreadyBumped_eq(hv, cv) == Truthy(hv) /\ cv = hv.val

\* the condition of line 85
AlreadyBumped(hv, cv) == Truthy(hv) /\ cv # hv.val

(***************************************************************************)
(* The state between invocations.                                          *)
(***************************************************************************)
Line(msg, v) == [msg |-> msg, ver |-> v]
NoPre == [disk |-> <<>>, index |-> None, head |-> None]
NoPrev == [bumped |-> FALSE, before |-> <<>>, after |-> <<>>]

Init ==
    /\ \E layout \in Layouts, v \in DiskVersions :
           /\ disk = Manifest(layout, v)
           /\ head \in {None} \cup {Some(Manifest(layout, w)) : w \in HeadVersions \cup {v}}
    /\ index \in {head, Some(disk)}
    /\ others \in {{}} \cup {{q} : q \in OtherPaths}
    /\ pc = "idle"
    /\ staged_files = <<>>
    /\ head_version = None
    /\ current_version = <<>>
    /\ new_version = <<>>
    /\ updated = <<>>
    /\ err = ""
    /\ out = <<>>
    /\ events = <<>>
    /\ pre = NoPre
    /\ prev = NoPrev
    /\ runs = 0
    /\ incIn = <<>>
    /\ incOut = Raise("")

(***************************************************************************)
(* bump_version (lines 69-104), one action per step.                       *)
(***************************************************************************)
Fatal(e) == pc' = "fatal" /\ err' = e

\* line 70: the invocation begins and lists the staged files
ListStaged ==
    /\ pc = "idle"
    /\ runs < MaxRuns
    /\ \E ok \in BOOLEAN : staged_files' = _list_staged_files(ok, GitDiffCached)
    /\ pc' = "check"
    /\ head_version' = None
    /\ current_version' = <<>>
    /\ new_version' = <<>>
    /\ updated' = <<>>
    /\ err' = ""
    /\ out' = <<>>
    /\ events' = <<>>
    /\ pre' = [disk |-> disk, index |-> index, head |-> head]
    /\ runs' = runs + 1
    /\ UNCHANGED <<gitVars, prev, incVars>>

\* lines 71-80
CheckStaged ==
    /\ pc = "check"
    /\ IF Len(staged_files) = 0
       THEN out' = Append(out, Line("no_staged", <<>>)) /\ pc' = "done"
       ELSE IF ~(has_src_changes \/ pyproject_staged)
       THEN out' = Append(out, Line("no_relevant", <<>>)) /\ pc' = "done"
       ELSE out' = out /\ pc' = "read_head"
    /\ UNCHANGED <<gitVars, locals, err, ghost, incVars>>

\* line 82
ReadHead ==
    /\ pc = "read_head"
    /\ \E r \in {_read_version_from_git(head)} :
           IF r.ok
           THEN head_version' = r.val /\ pc' = "read_current" /\ err' = err
           ELSE head_version' = head_version /\ Fatal(r.exc)
    /\ events' = Append(events, "read_head")
    /\ UNCHANGED <<gitVars, staged_files, current_version, new_version, updated,
                   out, pre, prev, runs, incVars>>

\* line 83
ReadCurrent ==
    /\ pc = "read_current"
    /\ \E r \in {_read_version_from_path(disk)} :
           IF r.ok
           THEN current_version' = r.val /\ pc' = "decide" /\ err' = err
           ELSE current_version' = current_version /\ Fatal(r.exc)
    /\ events' = Append(events, "read_current")
    /\ UNCHANGED <<gitVars, staged_files, head_version, new_version, updated,
                   out, pre, prev, runs, incVars>>

\* lines 85-92
Decide ==
    /\ pc = "decide"
    /\ IF AlreadyBumped(head_version, current_version)
       THEN /\ out' = Append(out, Line(IF pyproject_staged THEN "manual_bump"
                                       ELSE "already_bumped", <<>>))
            /\ pc' = "done"
       ELSE out' = out /\ pc' = "increment"
    /\ UNCHANGED <<gitVars, locals, err, ghost, incVars>>

\* line 94
Increment ==
    /\ pc = "increment"
    /\ \E r \in {_increment_patch(current_version)} :
           IF r.ok
           THEN new_version' = r.val /\ pc' = "update" /\ err' = err
           ELSE new_version' = new_version /\ Fatal(r.exc)
    /\ UNCHANGED <<gitVars, staged_files, head_version, current_version, updated,
                   out, ghost, incVars>>

\* line 96
UpdateLine ==
    /\ pc = "update"
    /\ \E r \in {_update_version_line(disk, new_version)} :
           IF r.ok
           THEN updated' = r.val /\ pc' = "write" /\ err' = err
           ELSE updated' = updated /\ Fatal(r.exc)
    /\ UNCHANGED <<gitVars, staged_files, head_version, current_version, new_version,
                   out, ghost, incVars>>

\* line 97
WriteText ==
    /\ pc = "write"
    /\ disk' = updated
    /\ events' = Append(events, "write")
    /\ pc' = "stage"
    /\ UNCHANGED <<index, head, others, locals, err, out, pre, prev, runs, incVars>>

\* lines 99-102: git add succeeds or fails
GitAdd ==
    /\ pc = "stage"
    /\ events' = Append(events, "add")
    /\ \E ok \in BOOLEAN :
           IF ok THEN index' = Some(disk) /\ pc' = "print" /\ err' = err
           ELSE index' = index /\ Fatal("RuntimeError")
    /\ UNCHANGED <<disk, head, others, locals, out, pre, prev, runs, incVars>>

\* line 104
PrintBumped ==
    /\ pc = "print"
    /\ out' = Append(out, Line("bumped", new_version))
    /\ events' = Append(events, "print")
    /\ pc' = "done"
    /\ UNCHANGED <<gitVars, locals, err, pre, prev, runs, incVars>>

\* the process ends
Exit ==
    /\ pc \in {"done", "fatal"}
    /\ pc' = "idle"
    /\ prev' = IF pc = "done" /\ "write" \in {events[i] : i \in 1..Len(events)}
               THEN [bumped |-> TRUE, before |-> pre.disk, after |-> disk]
               ELSE NoPrev
    /\ UNCHANGED <<gitVars, locals, err, out, events, pre, runs, incVars>>

(***************************************************************************)
(* The user, between invocations.                                          *)
(***************************************************************************)
\* git commit: HEAD takes the index
Commit ==
    /\ pc = "idle"
    /\ runs > 0
    /\ runs < MaxRuns
    /\ index.some
    /\ index # head \/ others # {}
    /\ head' = index
    /\ others' = {}
    /\ prev' = NoPrev
    /\ UNCHANGED <<disk, index, pc, locals, err, out, events, pre, runs, incVars>>

\* git add of another file
StageOther ==
    /\ pc = "idle"
    /\ runs > 0
    /\ runs < MaxRuns
    /\ \E q \in OtherPaths \ others : others' = others \cup {q}
    /\ prev' = NoPrev
    /\ UNCHANGED <<disk, index, head, pc, locals, err, out, events, pre, runs, incVars>>

Next ==
    \/ ListStaged
    \/ CheckStaged
    \/ ReadHead
    \/ ReadCurrent
    \/ Decide
    \/ Increment
    \/ UpdateLine
    \/ WriteText
    \/ GitAdd
    \/ PrintBumped
    \/ Exit
    \/ Commit
    \/ StageOther

Spec == Init /\ [][Next]_vars

(***************************************************************************)
(* _increment_patch alone, on every string over VerChars of length at most *)
(* MaxVerLen.                                                              *)
(***************************************************************************)
VerChars == {"0", "1", "9", "."}
VerStrings == UNION {[1..n -> VerChars] : n \in 0..MaxVerLen}
NotApplied == [ok |-> FALSE, val |-> <<>>, exc |-> "pending"]

InitInc ==
    /\ incIn \in VerStrings
    /\ incOut = NotApplied
    /\ disk = Manifest("plain", V010)
    /\ index = Some(disk)
    /\ head = Some(disk)
    /\ others = {}
    /\ pc = "idle"
    /\ staged_files = <<>>
    /\ head_version = None
    /\ current_version = <<>>
    /\ new_version = <<>>
    /\ updated = <<>>
    /\ err = ""
    /\ out = <<>>
    /\ events = <<>>
    /\ pre = NoPre
    /\ prev = NoPrev
    /\ runs = 0

ApplyIncrement ==
    /\ incOut = NotApplied
    /\ incOut' = _increment_patch(incIn)
    /\ UNCHANGED <<gitVars, pc, locals, err, out, ghost, incIn>>

NextInc == ApplyIncrement

SpecInc == InitInc /\ [][NextInc]_vars

(***************************************************************************)
(* What the properties speak of.                                           *)
(***************************************************************************)
Finished == pc \in {"done", "fatal"}
Did(e) == \E i \in 1..Len(events) : events[i] = e
Printed(msg) == \E i \in 1..Len(out) : out[i].msg = msg
\* the effects of the invocation on the file, the index and the terminal
Effects == SelectSeq(events, LAMBDA e : e \in {"write", "add", "print"})
\* a path under src/ or pyproject.toml is in the staged list
RelevantStaged ==
    \/ \E i \in 1..Len(staged_files) : StartsWith(staged_files[i], SrcPrefix)
    \/ \E i \in 1..Len(staged_files) : staged_files[i] = PYPROJECT
\* exactly three dot-separated non-negative integers
WellFormed(v) ==
    LET parts == Split(v, ".")
    IN Len(parts) = 3 /\ \A i \in 1..3 : IsInt(parts[i])
Components(v) == Cardinality({i \in 1..Len(v) : v[i] = "."}) + 1
\* v with its last component increased by 1
Bumped(v) ==
    LET parts == Split(v, ".")
    IN Join(<<parts[1], parts[2], StrOf(IntOf(parts[3]) + 1)>>, ".")
\* the working version and the committed version of the running invocation
Working == TomlVersion(pre.disk)
Committed == IF pre.head.some THEN TomlVersion(pre.head.val) ELSE Raise("CalledProcessError")
\* the patch component of project.version in a text
Patch(text) == IntOf(Split(TomlVersion(text).val, ".")[3])
\* text with the value of its project.version replaced and nothing else changed
SetProjectVersion(text, new) ==
    LET lines == Split(text, NL)
        P == [i \in 1..Len(lines) |-> ParseLine(lines[i])]
        hits == {i \in 1..Len(P) : /\ P[i].kind = "kv"
                                   /\ P[i].name = KVersion
                                   /\ TableAt(P, i) = TProject}
        h == CHOOSE i \in hits : \A k \in hits : i <= k
        l == lines[h]
        o == IndexFrom(l, QUOTE, IndexFrom(l, "=", 1))
        c == IndexFrom(l, QUOTE, o + 1)
    IN Join([lines EXCEPT ![h] = Slice(l, 1, o) \o new \o Slice(l, c, Len(l))], NL)

(***************************************************************************)
(* Properties.                                                             *)
(***************************************************************************)
\* C1: whenever a src/ path or pyproject.toml is staged, the working version
\* is well formed and equals the committed version, the invocation ends with
\* project.version on disk increased by one in its last component, the
\* manifest re-staged and the status line naming the new version printed,
\* the effects in the order write, stage, print.
Claim_C1 ==
    (/\ Finished
     /\ RelevantStaged
     /\ Working.ok /\ WellFormed(Working.val)
     /\ Committed.ok /\ Committed.val = Working.val)
    => /\ pc = "done"
       /\ TomlVersion(disk) = Ok(Bumped(Working.val))
       /\ index = Some(disk)
       /\ out = <<Line("bumped", Bumped(Working.val))>>
       /\ Effects = <<"write", "add", "print">>

\* C2: when the staged list is empty (also because git diff failed) or holds
\* neither a src/ path nor pyproject.toml, the invocation returns normally
\* with the skip line, the manifest and the index are untouched and neither
\* version was read.
Thm_C2 ==
    (Finished /\ ~RelevantStaged)
    => /\ pc = "done"
       /\ disk = pre.disk
       /\ index = pre.index
       /\ out = <<Line(IF Len(staged_files) = 0 THEN "no_staged" ELSE "no_relevant",
                       <<>>)>>
       /\ events = <<>>

\* a skip with something staged that is not relevant, and one after git diff failed
Wit_C2 ==
    /\ pc = "done"
    /\ staged_files = <<PathSrcs>>
    /\ out = <<Line("no_relevant", <<>>)>>

Claim_C4 ==
    (Finished /\ prev.bumped /\ Len(staged_files) > 0)
    => Patch(disk) = Patch(prev.before) + 2

\* C4, amended: a second invocation right after a bump, with no commit and
\* nothing newly staged, leaves the manifest as the first left it when a
\* non-empty committed version can be read, reporting a manual bump when it
\* returns; only when none can be read does a second invocation that returns
\* leave the patch component 2 greater.
Thm_C4 ==
    (Finished /\ prev.bumped /\ Len(staged_files) > 0)
    => IF Committed.ok /\ Len(Committed.val) > 0
       THEN /\ disk = prev.after
            /\ ~Did("write")
            /\ pc = "done" => out = <<Line("manual_bump", <<>>)>>
       ELSE pc = "done" => Patch(disk) = Patch(prev.before) + 2

\* the second invocation in a row has reported a manual bump
Wit_C4 ==
    /\ pc = "done"
    /\ prev.bumped
    /\ Patch(disk) = Patch(prev.before) + 1
    /\ out = <<Line("manual_bump", <<>>)>>

\* C5, as claimed: when relevant files are staged and git show fails, the
\* invocation is not aborted by that failure and does not change the manifest.
Claim_C5 ==
    (Did("read_head") /\ ~pre.head.some)
    => /\ err # "CalledProcessError"
       /\ disk = pre.disk

\* C5, amended: when relevant files are staged and git show fails, the
\* failure is soft (the committed version is None) and the invocation takes
\* the Bump path, not a skip: it ends bumped, the manifest rewritten and
\* re-staged, or in the fatal error of reading the working version, of the
\* increment, of the rewrite or of the staging.
Thm_C5 ==
    (Did("read_head") /\ ~pre.head.some)
    => /\ err # "CalledProcessError"
       /\ pc # "read_head" => head_version = None
       /\ ~Printed("manual_bump") /\ ~Printed("already_bumped")
       /\ pc = "done" => /\ out = <<Line("bumped", new_version)>>
                         /\ disk # pre.disk
                         /\ index = Some(disk)
       /\ pc = "fatal" => err \in {"KeyError", "TOMLDecodeError", "ValueError",
                                   "RuntimeError"}

\* git show failed and the manifest was rewritten
Wit_C5 ==
    /\ pc = "done"
    /\ Did("read_head") /\ ~pre.head.some
    /\ Did("write")
    /\ Patch(disk) = Patch(pre.disk) + 1

\* C6: after a rewrite, the manifest differs from what it was in the value
\* of project.version alone, which is the new version: every other character
\* is as before.
Claim_C6 ==
    Did("write") => disk = SetProjectVersion(pre.disk, new_version)

\* C7: _increment_patch of three dot-separated non-negative integers gives
\* the same first two components and a last component greater by 1; of a
\* string whose component count is not 3, it fails.
Thm_C7 ==
    incOut # NotApplied
    => /\ WellFormed(incIn)
          => /\ incOut.ok
             /\ LET a == Split(incIn, ".")
                    b == Split(incOut.val, ".")
                IN /\ Components(incOut.val) = 3
                   /\ b[1] = a[1]
                   /\ b[2] = a[2]
                   /\ IsInt(b[3])
                   /\ IntOf(b[3]) = IntOf(a[3]) + 1
       /\ Components(incIn) # 3 => ~incOut.ok /\ incOut.exc = "ValueError"

\* an increment that carries: 0.1.9 gives 0.1.10
Wit_C7 ==
    /\ incIn = <<"0", ".", "1", ".", "9">>
    /\ incOut = Ok(<<"0", ".", "1", ".", "1", "0">>)

\* C8: an invocation that reads a working version without exactly three
\* components ends in a fatal error, nothing printed, the manifest and the
\* index untouched.
Claim_C8 ==
    (/\ Finished
     /\ Did("read_current")
     /\ Working.ok /\ Components(Working.val) # 3)
    => /\ pc = "fatal"
       /\ out = <<>>
       /\ disk = pre.disk
       /\ index = pre.index

\* C9: when the rewrite succeeded and git add failed, the invocation ends in
\* a fatal error without the bumped line, project.version on disk is the
\* incremented version and the index is as it was.
Claim_C9 ==
    (Finished /\ Did("add") /\ ~Did("print"))
    => /\ pc = "fatal"
       /\ ~Printed("bumped")
       /\ TomlVersion(disk) = Ok(new_version)
       /\ index = pre.index

\* C10: the manifest is written at most once in an invocation, and only on
\* the Bump path with the increment done and the version line located; when
\* the rewrite cannot locate the line, the invocation ends in a fatal error,
\* the manifest and the index untouched and git add never run.
Thm_C10 ==
    /\ Cardinality({i \in 1..Len(events) : events[i] = "write"}) <= 1
    /\ Did("write")
       => /\ ~(Committed.ok /\ Len(Committed.val) > 0 /\ Committed.val # Working.val)
          /\ ~Printed("manual_bump") /\ ~Printed("already_bumped")
          /\ Working.ok /\ Components(Working.val) = 3
          /\ new_version = Bumped(Working.val)
          /\ Search(pre.disk).found
          /\ disk = VersionLineSub(pre.disk, new_version)
          /\ disk # pre.disk
    /\ (/\ Finished
        /\ Len(new_version) > 0
        /\ VersionLineSub(pre.disk, new_version) = pre.disk)
       => /\ pc = "fatal"
          /\ err = "RuntimeError"
          /\ disk = pre.disk
          /\ index = pre.index
          /\ ~Did("add")

\* the rewrite found no version line: version = "0.1.0" # c
Wit_C10 ==
    /\ pc = "fatal"
    /\ err = "RuntimeError"
    /\ ~Search(pre.disk).found
    /\ new_version = V011
    /\ ~Did("add")

====
